---- MODULE Spec2Model ----
(***************************************************************************)
(* Hybrid ranking and category-balanced selection of assessment            *)
(* recommendations: the serving path (api.py, _recommend_assessments) and  *)
(* the offline path (evaluate_and_predict.py, get_recommendations_local).  *)
(*                                                                         *)
(* Text is a sequence of one-character strings, so that lower(), strip(),  *)
(* split(), substring tests and the duration regexes are computed as the   *)
(* code computes them.  Scores are exact integers: similarity in           *)
(* hundredths, keyword and metadata scores in tenths, final_score in units *)
(* of 1/70000 (0.35 = 245/70000 per hundredth, 0.45/3.5 = 900/70000 per    *)
(* tenth, 0.20 = 1400/70000 per tenth).                                    *)
(***************************************************************************)
EXTENDS Integers, Sequences, FiniteSets, TLC

(* ------------------------------ bounds --------------------------------- *)
\* longest retrieved pool enumerated exhaustively
MaxPool == 3
\* largest requested n_results enumerated
MaxN == 3
\* number of ranking calls made on the same inputs
MaxCalls == 2
\* number of similarity levels in the backfill scenario pools
ScoreLevels == 2
\* number of requests in flight at the same time
MaxInFlight == 2

(* ------------------------------ text ----------------------------------- *)
UpperChars == <<"A","B","C","D","E","F","G","H","I","J","K","L","M",
                "N","O","P","Q","R","S","T","U","V","W","X","Y","Z">>
LowerChars == <<"a","b","c","d","e","f","g","h","i","j","k","l","m",
                "n","o","p","q","r","s","t","u","v","w","x","y","z">>
Digits == <<"0","1","2","3","4","5","6","7","8","9">>

\* str.lower() on one character
LowerChar(c) ==
    IF \E i \in 1..Len(UpperChars) : UpperChars[i] = c
    THEN LowerChars[CHOOSE i \in 1..Len(UpperChars) : UpperChars[i] = c]
    ELSE c

\* str.lower()
Lower(s) == [i \in 1..Len(s) |-> LowerChar(s[i])]

IsSpace(c) == c \in {" ", "\t", "\n"}
IsDigit(c) == \E i \in 1..Len(Digits) : Digits[i] = c
DigitVal(c) == (CHOOSE i \in 1..Len(Digits) : Digits[i] = c) - 1

\* s[i..j] (1-based, inclusive; empty when j < i)
Slice(s, i, j) == [k \in 1..(IF j < i THEN 0 ELSE j - i + 1) |-> s[i + k - 1]]

\* str.strip()
Strip(s) ==
    LET nonsp == {i \in 1..Len(s) : ~IsSpace(s[i])}
    IN  IF nonsp = {} THEN <<>>
        ELSE Slice(s, CHOOSE i \in nonsp : \A j \in nonsp : i <= j,
                      CHOOSE i \in nonsp : \A j \in nonsp : i >= j)

\* lit occurs in s starting at position i
StartsWithAt(s, i, lit) ==
    /\ i + Len(lit) - 1 <= Len(s)
    /\ \A j \in 1..Len(lit) : s[i + j - 1] = lit[j]

\* Python's `a in b` on strings
IsSubstr(a, b) == \E i \in 1..(Len(b) + 1) : StartsWithAt(b, i, a)

\* Python's `x in list`
InList(x, l) == \E i \in 1..Len(l) : l[i] = x

\* str.split(): the maximal runs of non-whitespace, in order
RECURSIVE SplitFrom(_, _)
SplitFrom(s, i) ==
    IF i > Len(s) THEN <<>>
    ELSE IF IsSpace(s[i]) THEN SplitFrom(s, i + 1)
    ELSE LET ends == {j \in i..Len(s) : j = Len(s) \/ IsSpace(s[j + 1])}
             e == CHOOSE j \in ends : \A k \in ends : j <= k
         IN  <<Slice(s, i, e)>> \o SplitFrom(s, e + 1)

Split(s) == SplitFrom(s, 1)

\* int() of the digit run s[i..j]
RECURSIVE DecVal(_, _, _)
DecVal(s, i, j) == IF j < i THEN 0 ELSE 10 * DecVal(s, i, j - 1) + DigitVal(s[j])

\* sep.join(parts)
RECURSIVE Join(_, _)
Join(parts, sep) ==
    IF parts = <<>> THEN <<>>
    ELSE IF Len(parts) = 1 THEN parts[1]
    ELSE Join(SubSeq(parts, 1, Len(parts) - 1), sep) \o sep \o parts[Len(parts)]

\* s.split(c) for a one-character separator: the pieces between the
\* separators, empty pieces included ("".split(",") is [""])
RECURSIVE SplitOn(_, _)
SplitOn(s, c) ==
    LET seps == {i \in 1..Len(s) : s[i] = c}
    IN  IF seps = {} THEN <<s>>
        ELSE LET i == CHOOSE k \in seps : \A m \in seps : k >= m
             IN  Append(SplitOn(Slice(s, 1, i - 1), c), Slice(s, i + 1, Len(s)))

(* --------------------------- skill expansion --------------------------- *)

\* mutant: the data group also lists an alias of the excel group
SKILL_SYNONYMS_Overlap ==
    << <<<<"p","y","t","h","o","n">>, <<"p","y">>, <<"p","y","t","h","o","n","3">>>>,
       <<<<"j","a","v","a">>, <<"j","2","e","e">>, <<"s","p","r","i","n","g">>>>,
       <<<<"j","a","v","a","s","c","r","i","p","t">>, <<"j","s">>, <<"n","o","d","e">>, <<"n","o","d","e","j","s">>, <<"r","e","a","c","t">>, <<"a","n","g","u","l","a","r">>, <<"v","u","e">>>>,
       <<<<"s","q","l">>, <<"m","y","s","q","l">>, <<"p","o","s","t","g","r","e","s","q","l">>, <<"d","a","t","a","b","a","s","e">>, <<"d","b">>>>,
       <<<<"d","a","t","a">>, <<"a","n","a","l","y","t","i","c","s">>, <<"e","x","c","e","l">>>>,
       <<<<"e","x","c","e","l">>, <<"s","p","r","e","a","d","s","h","e","e","t">>, <<"m","s"," ","e","x","c","e","l">>>>,
       <<<<"c","o","m","m","u","n","i","c","a","t","i","o","n">>, <<"v","e","r","b","a","l">>, <<"w","r","i","t","t","e","n">>, <<"p","r","e","s","e","n","t","a","t","i","o","n">>>>,
       <<<<"l","e","a","d","e","r","s","h","i","p">>, <<"m","a","n","a","g","e","m","e","n","t">>, <<"m","a","n","a","g","e","r">>, <<"l","e","a","d">>>>,
       <<<<"t","e","a","m","w","o","r","k">>, <<"c","o","l","l","a","b","o","r","a","t","i","o","n">>, <<"t","e","a","m">>, <<"c","o","l","l","a","b","o","r","a","t","i","v","e">>>> >>

\* the synonym table: one alias list per group, in the table's order
SKILL_SYNONYMS ==
    << <<<<"p","y","t","h","o","n">>, <<"p","y">>, <<"p","y","t","h","o","n","3">>>>,
       <<<<"j","a","v","a">>, <<"j","2","e","e">>, <<"s","p","r","i","n","g">>>>,
       <<<<"j","a","v","a","s","c","r","i","p","t">>, <<"j","s">>, <<"n","o","d","e">>, <<"n","o","d","e","j","s">>, <<"r","e","a","c","t">>, <<"a","n","g","u","l","a","r">>, <<"v","u","e">>>>,
       <<<<"s","q","l">>, <<"m","y","s","q","l">>, <<"p","o","s","t","g","r","e","s","q","l">>, <<"d","a","t","a","b","a","s","e">>, <<"d","b">>>>,
       <<<<"d","a","t","a">>, <<"a","n","a","l","y","t","i","c","s">>, <<"a","n","a","l","y","s","i","s">>>>,
       <<<<"e","x","c","e","l">>, <<"s","p","r","e","a","d","s","h","e","e","t">>, <<"m","s"," ","e","x","c","e","l">>>>,
       <<<<"c","o","m","m","u","n","i","c","a","t","i","o","n">>, <<"v","e","r","b","a","l">>, <<"w","r","i","t","t","e","n">>, <<"p","r","e","s","e","n","t","a","t","i","o","n">>>>,
       <<<<"l","e","a","d","e","r","s","h","i","p">>, <<"m","a","n","a","g","e","m","e","n","t">>, <<"m","a","n","a","g","e","r">>, <<"l","e","a","d">>>>,
       <<<<"t","e","a","m","w","o","r","k">>, <<"c","o","l","l","a","b","o","r","a","t","i","o","n">>, <<"t","e","a","m">>, <<"c","o","l","l","a","b","o","r","a","t","i","v","e">>>> >>

Range(l) == {l[i] : i \in 1..Len(l)}

\* mutant: a group is looked up by its key (the alias the table lists first)
\* instead of by membership in its alias list
ExpandSet_ByKey(skills) ==
    UNION {
        {Lower(skills[i])} \cup
        UNION {Range(SKILL_SYNONYMS[g]) :
                 g \in {h \in 1..Len(SKILL_SYNONYMS) :
                          Lower(skills[i]) = SKILL_SYNONYMS[h][1]}}
        : i \in 1..Len(skills)}

\* the set that expand_skills builds before list() fixes an order
ExpandSet(skills) ==
    UNION {
        {Lower(skills[i])} \cup
        UNION {Range(SKILL_SYNONYMS[g]) :
                 g \in {h \in 1..Len(SKILL_SYNONYMS) :
                          InList(Lower(skills[i]), SKILL_SYNONYMS[h])}}
        : i \in 1..Len(skills)}

\* the orders list(set) may produce: every arrangement of the set
Orders(S) ==
    {f \in [1..Cardinality(S) -> S] : \A i, j \in 1..Cardinality(S) : f[i] = f[j] => i = j}

(* ------------------------------ durations ------------------------------ *)
\* end of the maximal run of digits / of whitespace starting at i (i-1 when empty)
DigitsEnd(s, i) ==
    CHOOSE j \in (i - 1)..Len(s) :
        /\ \A k \in i..j : IsDigit(s[k])
        /\ (j = Len(s) \/ ~IsDigit(s[j + 1]))

SpaceEnd(s, i) ==
    CHOOSE j \in (i - 1)..Len(s) :
        /\ \A k \in i..j : IsSpace(s[k])
        /\ (j = Len(s) \/ ~IsSpace(s[j + 1]))

\* (\d+)\s*(?:lit1|lit2|...) matches with the group starting at i
MatchAt(s, i, lits) ==
    /\ IsDigit(s[i])
    /\ \E lit \in lits : StartsWithAt(s, SpaceEnd(s, DigitsEnd(s, i) + 1) + 1, lit)

NoMatch == -1

\* re.search: int(group(1)) of the leftmost match, or NoMatch
ReSearch(s, lits) ==
    LET starts == {i \in 1..Len(s) : MatchAt(s, i, lits)}
    IN  IF starts = {} THEN NoMatch
        ELSE LET i == CHOOSE k \in starts : \A m \in starts : k <= m
             IN  DecVal(s, i, DigitsEnd(s, i))

l_min == <<"m","i","n">>
l_minute == <<"m","i","n","u","t","e">>
l_minutes == <<"m","i","n","u","t","e","s">>
l_hr == <<"h","r">>
l_hour == <<"h","o","u","r">>
l_hours == <<"h","o","u","r","s">>
l_h == <<"h">>

None == -1

\* mutant: the hour patterns are tried before the minute pattern
extract_duration_constraint_HoursFirst(query) ==
    LET q == Lower(query)
        m == ReSearch(q, {l_min, l_minute, l_minutes})
        h == ReSearch(q, {l_hr, l_hour, l_hours})
        b == ReSearch(q, {l_h})
    IN  IF h # NoMatch THEN h * 60
        ELSE IF b # NoMatch THEN b * 60
        ELSE IF m # NoMatch THEN m
        ELSE None

\* extract_duration_constraint: minutes, then hours, then bare h
extract_duration_constraint(query) ==
    LET q == Lower(query)
        m == ReSearch(q, {l_min, l_minute, l_minutes})
        h == ReSearch(q, {l_hr, l_hour, l_hours})
        b == ReSearch(q, {l_h})
    IN  IF m # NoMatch THEN m
        ELSE IF h # NoMatch THEN h * 60
        ELSE IF b # NoMatch THEN b * 60
        ELSE None

UnknownDuration == 999

\* mutant: the total is returned as it is, also when it is 0
parse_duration_NoSentinel(duration_str) ==
    IF Len(duration_str) = 0 THEN UnknownDuration
    ELSE LET d == Lower(duration_str)
             h == ReSearch(d, {l_hr, l_hour})
             m == ReSearch(d, {l_min, l_minute})
         IN  (IF h # NoMatch THEN h * 60 ELSE 0) + (IF m # NoMatch THEN m ELSE 0)

\* parse_duration of a candidate's duration text
parse_duration(duration_str) ==
    IF Len(duration_str) = 0 THEN UnknownDuration
    ELSE LET d == Lower(duration_str)
             h == ReSearch(d, {l_hr, l_hour})
             m == ReSearch(d, {l_min, l_minute})
             total == (IF h # NoMatch THEN h * 60 ELSE 0) + (IF m # NoMatch THEN m ELSE 0)
         IN  IF total > 0 THEN total ELSE UnknownDuration

(* ------------------------------ scoring -------------------------------- *)
\* keyword points, in tenths (1.8 / 1.2 / 0.6 per skill, 0.9 per role token)
NamePoints == 18
SkillPoints == 12
DescPoints == 6
RolePoints == 9
\* shortest role token that is not counted
RoleTokenMin == 3
\* metadata points, in tenths
PrimaryPoints == 3
TypeMatchPoints == 2
JobLevelPoints == 3
DurationPoints == 4
\* res_duration <= duration_constraint * 1.2, as 10 * res <= 12 * constraint
ToleranceNum == 12
ToleranceDen == 10
\* cap on the raw keyword score, in tenths
KeywordCap == 35
\* weights of final_score in units of 1/70000
SemanticWeight == 245
KeywordWeight == 900
MetadataWeight == 1400

Min(a, b) == IF a < b THEN a ELSE b
Max(a, b) == IF a > b THEN a ELSE b

\* [s.lower().strip() for s in res.get('skills', [])]
AssessmentSkills(res) == [i \in 1..Len(res.skills) |-> Strip(Lower(res.skills[i]))]

\* mutant: the three tests are separate ifs, every tier that matches counts
SkillPointsOf_Cumulative(skill, res) ==
    (IF IsSubstr(skill, Lower(res.name)) THEN NamePoints ELSE 0)
    + (IF InList(skill, AssessmentSkills(res)) THEN SkillPoints ELSE 0)
    + (IF IsSubstr(skill, Lower(res.description)) THEN DescPoints ELSE 0)

\* the contribution of one expanded skill: name, else skill list, else description
SkillPointsOf(skill, res) ==
    IF IsSubstr(skill, Lower(res.name)) THEN NamePoints
    ELSE IF InList(skill, AssessmentSkills(res)) THEN SkillPoints
    ELSE IF IsSubstr(skill, Lower(res.description)) THEN DescPoints
    ELSE 0

\* mutant: the loop breaks after the first skill that scores
RECURSIVE SkillLoop_FirstHit(_, _, _)
SkillLoop_FirstHit(expanded, i, res) ==
    IF i > Len(expanded) THEN 0
    ELSE IF SkillPointsOf(expanded[i], res) > 0 THEN SkillPointsOf(expanded[i], res)
    ELSE SkillLoop_FirstHit(expanded, i + 1, res)

\* the loop over expanded_skills, in the list's order
RECURSIVE SkillLoop(_, _, _)
SkillLoop(expanded, i, res) ==
    IF i > Len(expanded) THEN 0
    ELSE SkillPointsOf(expanded[i], res) + SkillLoop(expanded, i + 1, res)

\* role_parts = [p for p in llm_role.split() if len(p) > 3]
RoleParts(llm_role) == SelectSeq(Split(llm_role), LAMBDA p : Len(p) > RoleTokenMin)

RECURSIVE RoleLoop(_, _, _)
RoleLoop(parts, i, res) ==
    IF i > Len(parts) THEN 0
    ELSE (IF IsSubstr(parts[i], Lower(res.name)) THEN RolePoints ELSE 0)
         + RoleLoop(parts, i + 1, res)

\* keyword_score of one candidate (tenths)
KeywordScore(res, expanded, llm_role) ==
    SkillLoop(expanded, 1, res)
    + (IF Len(llm_role) > 0 THEN RoleLoop(RoleParts(llm_role), 1, res) ELSE 0)

\* any(t in llm_test_types for t in res_types)
AnyTypeRequired(res, llm_test_types) ==
    \E i \in 1..Len(res.test_types) : InList(res.test_types[i], llm_test_types)

\* res.get('duration', ''): the retrieval result carries no duration key
DurationText(res) == IF "duration" \in DOMAIN res THEN res.duration ELSE <<>>

CategoryTerm(res, llm_test_types) ==
    IF InList("K", res.test_types) \/ InList("P", res.test_types)
    THEN PrimaryPoints + (IF AnyTypeRequired(res, llm_test_types) THEN TypeMatchPoints ELSE 0)
    ELSE IF AnyTypeRequired(res, llm_test_types) THEN TypeMatchPoints ELSE 0

\* mutant: the truthiness guard on llm_job_level is dropped
JobLevelTerm_Unguarded(res, llm_job_level) ==
    IF IsSubstr(llm_job_level, Lower(res.job_level)) THEN JobLevelPoints ELSE 0

JobLevelTerm(res, llm_job_level) ==
    IF Len(llm_job_level) > 0 /\ IsSubstr(llm_job_level, Lower(res.job_level))
    THEN JobLevelPoints ELSE 0

DurationTerm(res, duration_constraint) ==
    IF duration_constraint # None /\ duration_constraint # 0
       /\ ToleranceDen * parse_duration(DurationText(res)) <= ToleranceNum * duration_constraint
    THEN DurationPoints ELSE 0

\* metadata_score of one candidate (tenths)
MetadataScore(res, llm_test_types, llm_job_level, duration_constraint) ==
    CategoryTerm(res, llm_test_types)
    + JobLevelTerm(res, llm_job_level)
    + DurationTerm(res, duration_constraint)

\* mutant: the keyword score enters uncapped
FinalScore_Uncapped(semantic_score, keyword_score, metadata_score) ==
    semantic_score * SemanticWeight
    + keyword_score * KeywordWeight
    + metadata_score * MetadataWeight

\* final_score in units of 1/70000
FinalScore(semantic_score, keyword_score, metadata_score) ==
    semantic_score * SemanticWeight
    + Min(keyword_score, KeywordCap) * KeywordWeight
    + metadata_score * MetadataWeight

\* mutant: the lower-cased name and the normalised skill list that the loop
\* computes are written back to the candidate
Scored_Normalised(res, ctx) ==
    LET kw == KeywordScore(res, ctx.expanded_skills, ctx.llm_role)
        md == MetadataScore(res, ctx.llm_test_types, ctx.llm_job_level,
                            ctx.duration_constraint)
    IN  [url |-> res.url, name |-> Lower(res.name), description |-> res.description,
         test_types |-> res.test_types, job_level |-> res.job_level,
         skills |-> AssessmentSkills(res), similarity_score |-> res.similarity_score,
         keyword_score |-> kw, metadata_score |-> md,
         final_score |-> FinalScore(res.similarity_score, kw, md)]

\* one pass of the scoring loop: the candidate with its scores attached
Scored(res, ctx) ==
    LET kw == KeywordScore(res, ctx.expanded_skills, ctx.llm_role)
        md == MetadataScore(res, ctx.llm_test_types, ctx.llm_job_level,
                            ctx.duration_constraint)
    IN  [url |-> res.url, name |-> res.name, description |-> res.description,
         test_types |-> res.test_types, job_level |-> res.job_level,
         skills |-> res.skills, similarity_score |-> res.similarity_score,
         keyword_score |-> kw, metadata_score |-> md,
         final_score |-> FinalScore(res.similarity_score, kw, md)]

ScoreAll(all_results, ctx) == [i \in 1..Len(all_results) |-> Scored(all_results[i], ctx)]

(* ------------------------------ balancing ------------------------------ *)
Front(s) == SubSeq(s, 1, Len(s) - 1)
Last(s) == s[Len(s)]
Urls(s) == [i \in 1..Len(s) |-> s[i].url]
HasUrl(s, u) == \E i \in 1..Len(s) : s[i].url = u

\* mutant: reverse=True is dropped, the sort is ascending
InsertStable_Ascending(sorted, x) ==
    LET k == Cardinality({i \in 1..Len(sorted) : sorted[i].final_score <= x.final_score})
    IN  SubSeq(sorted, 1, k) \o <<x>> \o SubSeq(sorted, k + 1, Len(sorted))

\* mutant: the sort is not stable, an entry goes in front of its equals
InsertStable_TiesReversed(sorted, x) ==
    LET k == Cardinality({i \in 1..Len(sorted) : sorted[i].final_score > x.final_score})
    IN  SubSeq(sorted, 1, k) \o <<x>> \o SubSeq(sorted, k + 1, Len(sorted))

\* sorted(..., key=final_score, reverse=True): stable, equal keys keep their order
InsertStable(sorted, x) ==
    LET k == Cardinality({i \in 1..Len(sorted) : sorted[i].final_score >= x.final_score})
    IN  SubSeq(sorted, 1, k) \o <<x>> \o SubSeq(sorted, k + 1, Len(sorted))

RECURSIVE SortDesc(_)
SortDesc(s) == IF s = <<>> THEN <<>> ELSE InsertStable(SortDesc(Front(s)), Last(s))

is_k(res) == InList("K", res.test_types)
is_p(res) == InList("P", res.test_types)

InBucket(res, kind) ==
    CASE kind = "K" -> is_k(res)
      [] kind = "P" -> is_p(res)
      [] OTHER -> ~is_k(res) /\ ~is_p(res)

\* best_k / best_p / best_other: one scan of the sorted list, first url wins
RECURSIVE Bucket(_, _)
Bucket(sorted, kind) ==
    IF sorted = <<>> THEN <<>>
    ELSE LET b == Bucket(Front(sorted), kind)
             r == Last(sorted)
         IN  IF InBucket(r, kind) /\ ~HasUrl(b, r.url) THEN Append(b, r) ELSE b

\* mutant: the slice is dropped, the whole list is taken
Take_All(s, k) == s

Take(s, k) == SubSeq(s, 1, Min(k, Len(s)))

\* mutant: the loop runs over range(min(...)) and stops with the shorter bucket
RECURSIVE InterleaveFrom_StopAtShort(_, _, _, _, _)
InterleaveFrom_StopAtShort(best_k, best_p, n, i, acc) ==
    IF i >= Min(Len(best_k), Len(best_p)) THEN acc
    ELSE LET a1 == IF i < Len(best_k) /\ Len(acc) < n
                   THEN Append(acc, best_k[i + 1]) ELSE acc
             a2 == IF i < Len(best_p) /\ Len(a1) < n
                   THEN Append(a1, best_p[i + 1]) ELSE a1
         IN  InterleaveFrom_StopAtShort(best_k, best_p, n, i + 1, a2)

\* the round-robin loop over range(max(len(best_k), len(best_p)))
RECURSIVE InterleaveFrom(_, _, _, _, _)
InterleaveFrom(best_k, best_p, n, i, acc) ==
    IF i >= Max(Len(best_k), Len(best_p)) THEN acc
    ELSE LET a1 == IF i < Len(best_k) /\ Len(acc) < n
                   THEN Append(acc, best_k[i + 1]) ELSE acc
             a2 == IF i < Len(best_p) /\ Len(a1) < n
                   THEN Append(a1, best_p[i + 1]) ELSE a1
         IN  InterleaveFrom(best_k, best_p, n, i + 1, a2)

\* mutant: no round robin, the knowledge bucket is taken first
Interleave_KnowledgeFirst(best_k, best_p, n) == Take(best_k \o best_p, n)

Interleave(best_k, best_p, n) == InterleaveFrom(best_k, best_p, n, 0, <<>>)

\* which branch of the selection runs
Branch(llm_test_types) ==
    IF InList("K", llm_test_types) /\ InList("P", llm_test_types) THEN "both"
    ELSE IF InList("K", llm_test_types) THEN "k_only"
    ELSE IF InList("P", llm_test_types) THEN "p_only"
    ELSE "fallback"

\* mutant: the personality-only branch slices the knowledge bucket
Selection_WrongBucket(best_k, best_p, llm_test_types, n) ==
    CASE Branch(llm_test_types) = "both" -> Interleave(best_k, best_p, n)
      [] Branch(llm_test_types) = "k_only" -> Take(best_k, n)
      [] Branch(llm_test_types) = "p_only" -> Take(best_k, n)
      [] OTHER -> Take(best_k, n \div 2) \o Take(best_p, n \div 2)

\* final_recommendations before deduplication
Selection(best_k, best_p, llm_test_types, n) ==
    CASE Branch(llm_test_types) = "both" -> Interleave(best_k, best_p, n)
      [] Branch(llm_test_types) = "k_only" -> Take(best_k, n)
      [] Branch(llm_test_types) = "p_only" -> Take(best_p, n)
      [] OTHER -> Take(best_k, n \div 2) \o Take(best_p, n \div 2)

\* mutant: the list is not deduplicated
UniqueRecs_KeepAll(recs) == recs

\* list({rec['url']: rec for rec in final_recommendations}.values()):
\* a key keeps the position of its first insertion and the value of its last
RECURSIVE UniqueRecs(_)
UniqueRecs(recs) ==
    IF recs = <<>> THEN <<>>
    ELSE LET u == UniqueRecs(Front(recs))
             r == Last(recs)
         IN  IF HasUrl(u, r.url)
             THEN [i \in 1..Len(u) |-> IF u[i].url = r.url THEN r ELSE u[i]]
             ELSE Append(u, r)

\* mutant: the loop does not stop at n entries
RECURSIVE BackfillFrom_NoStop(_, _, _, _)
BackfillFrom_NoStop(unique_recs, best_other, n, i) ==
    IF i > Len(best_other) THEN unique_recs
    ELSE BackfillFrom_NoStop(IF HasUrl(unique_recs, best_other[i].url) THEN unique_recs
                             ELSE Append(unique_recs, best_other[i]),
                             best_other, n, i + 1)

\* the backfill loop over best_other
RECURSIVE BackfillFrom(_, _, _, _)
BackfillFrom(unique_recs, best_other, n, i) ==
    IF i > Len(best_other) \/ Len(unique_recs) >= n THEN unique_recs
    ELSE BackfillFrom(IF HasUrl(unique_recs, best_other[i].url) THEN unique_recs
                      ELSE Append(unique_recs, best_other[i]),
                      best_other, n, i + 1)

\* mutant: the others are merged in whatever the length of the list, so the
\* final sort and slice can drop a selected entry for a higher-scored other
Backfill_Displacing(unique_recs, best_other, n) ==
    unique_recs \o SelectSeq(best_other, LAMBDA r : ~HasUrl(unique_recs, r.url))

Backfill(unique_recs, best_other, n) ==
    IF Len(unique_recs) < n THEN BackfillFrom(unique_recs, best_other, n, 1)
    ELSE unique_recs

\* mutant: the final sort is dropped
FinalResults_Unsorted(unique_recs, n) == Take(unique_recs, n)

\* sorted(unique_recs, key=final_score, reverse=True)[:n]
FinalResults(unique_recs, n) == Take(SortDesc(unique_recs), n)

\* everything from the first sort to the returned list
Balance(scored_results, llm_test_types, n) ==
    LET sorted_results == SortDesc(scored_results)
        best_k == Bucket(sorted_results, "K")
        best_p == Bucket(sorted_results, "P")
        best_other == Bucket(sorted_results, "O")
        final_recommendations == Selection(best_k, best_p, llm_test_types, n)
        unique_recs == Backfill(UniqueRecs(final_recommendations), best_other, n)
    IN  FinalResults(unique_recs, n)

(* --------------------------- the vector store -------------------------- *)
\* A category tag is a one-character string; its text is that character.
TagText(tag) == <<tag>>

\* the string whose text is s (the strings that can come out of a tag list)
TagOf(s) ==
    CASE s = <<>> -> ""
      [] Len(s) = 1 -> s[1]
      [] s = <<" ", "K">> -> " K"
      [] s = <<" ", "P">> -> " P"
      [] s = <<" ", "A">> -> " A"
      [] s = <<" ", "S">> -> " S"
      [] OTHER -> "?"

l_comma == <<",">>
l_comma_space == <<",", " ">>
\* longest description kept in the metadata
DescriptionLimit == 500

\* the metadata add_assessments stores for one catalogue entry
Metadata(assessment) ==
    [name |-> assessment.name, url |-> assessment.url,
     description |-> SubSeq(assessment.description, 1,
                            Min(DescriptionLimit, Len(assessment.description))),
     test_types |-> Join([i \in 1..Len(assessment.test_types) |->
                             TagText(assessment.test_types[i])], l_comma_space),
     job_level |-> assessment.job_level,
     skills |-> Join(assessment.skills, l_comma_space)]

\* the dictionary search builds from one stored metadata and its similarity
\* (its 'category' and 'distance' keys play no part in the ranking)
SearchResult(metadata, similarity) ==
    LET types == SplitOn(metadata.test_types, l_comma[1])
    IN  [url |-> metadata.url, name |-> metadata.name,
         description |-> metadata.description,
         test_types |-> [i \in 1..Len(types) |-> TagOf(types[i])],
         job_level |-> metadata.job_level,
         skills |-> IF Len(metadata.skills) > 0
                    THEN SplitOn(metadata.skills, l_comma[1]) ELSE <<>>,
         similarity_score |-> similarity]

(* --------------------------- the classifier ---------------------------- *)
\* a JSON value that is a string, null, or an absent key
Str(v) == [tag |-> "str", v |-> v]
Null == [tag |-> "none", v |-> <<>>]
Missing == [tag |-> "missing", v |-> <<>>]

t_unknown == <<"U","n","k","n","o","w","n">>

\* the dictionary analyse_query returns from either except branch
FallbackAnalysis ==
    [job_level |-> Null, required_skills |-> <<>>,
     required_test_types |-> <<"K", "P">>, role |-> Str(t_unknown)]

\* the dictionary the offline path substitutes (no analyser, or an exception)
LocalDefaultAnalysis ==
    [job_level |-> Str(<<>>), required_skills |-> <<>>,
     required_test_types |-> <<"K", "P">>, role |-> Str(<<>>)]

\* QueryAnalyser.analyse_query: the parsed response, or the fallback when the
\* model call raises or its text is not JSON
analyse_query(response) ==
    IF response.kind = "ok" THEN response.analysis ELSE FallbackAnalysis

(* --------------------------- one ranking call -------------------------- *)
\* mutant: an empty list is not replaced by the default
NormaliseTypes_NoDefault(llm_test_types) ==
    IF InList("K", llm_test_types) /\ ~InList("P", llm_test_types)
    THEN Append(llm_test_types, "P")
    ELSE llm_test_types

\* mutant: Personality is not added to a list that has Knowledge without it
NormaliseTypes_NoAppend(llm_test_types) ==
    IF Len(llm_test_types) = 0 THEN <<"K", "P">> ELSE llm_test_types

\* the required-category normalisation
NormaliseTypes(llm_test_types) ==
    IF Len(llm_test_types) = 0 THEN <<"K", "P">>
    ELSE IF InList("K", llm_test_types) /\ ~InList("P", llm_test_types)
         THEN Append(llm_test_types, "P")
    ELSE llm_test_types

Failed(err) == [error |-> err, expanded |-> <<>>, scored |-> <<>>, results |-> <<>>]

\* the body both paths share, from the analysis to the returned list;
\* order is the list that list(expanded) produced in this call
RankCall(analysis, q, all_results, n, order) ==
    IF analysis.job_level.tag = "none" \/ analysis.role.tag = "none"
    THEN Failed("AttributeError")
    ELSE LET ctx == [expanded_skills |-> order,
                     llm_job_level |-> Lower(analysis.job_level.v),
                     llm_test_types |-> NormaliseTypes(analysis.required_test_types),
                     llm_role |-> Lower(analysis.role.v),
                     duration_constraint |-> extract_duration_constraint(q)]
             scored_results == ScoreAll(all_results, ctx)
         IN  [error |-> "", expanded |-> order, scored |-> scored_results,
              results |-> Balance(scored_results, ctx.llm_test_types, n)]

\* mutant: the offline copy has drifted and lacks the branch that appends "P"
LocalRankCall_Drift(analysis, q, all_results, n, order) ==
    IF analysis.job_level.tag = "none" \/ analysis.role.tag = "none"
    THEN Failed("AttributeError")
    ELSE LET types == analysis.required_test_types
             ctx == [expanded_skills |-> order,
                     llm_job_level |-> Lower(analysis.job_level.v),
                     llm_test_types |-> IF Len(types) = 0 THEN <<"K", "P">> ELSE types,
                     llm_role |-> Lower(analysis.role.v),
                     duration_constraint |-> extract_duration_constraint(q)]
             scored_results == ScoreAll(all_results, ctx)
         IN  [error |-> "", expanded |-> order, scored |-> scored_results,
              results |-> Balance(scored_results, ctx.llm_test_types, n)]

\* the copy of that body in get_recommendations_local, from the analysis to the
\* list whose urls it returns (keyword_score and metadata_score are computed
\* per candidate as in the serving path; only final_score is stored on the record)
LocalRankCall(analysis, q, all_results, n, order) ==
    IF analysis.job_level.tag = "none" \/ analysis.role.tag = "none"
    THEN Failed("AttributeError")
    ELSE LET duration_constraint == extract_duration_constraint(q)
             llm_job_level == Lower(analysis.job_level.v)
             llm_test_types == NormaliseTypes(analysis.required_test_types)
             llm_role == Lower(analysis.role.v)
             scored_results ==
                 [i \in 1..Len(all_results) |->
                     Scored(all_results[i],
                            [expanded_skills |-> order,
                             llm_job_level |-> llm_job_level,
                             llm_test_types |-> llm_test_types,
                             llm_role |-> llm_role,
                             duration_constraint |-> duration_constraint])]
         IN  [error |-> "", expanded |-> order, scored |-> scored_results,
              results |-> Balance(scored_results, llm_test_types, n)]

\* shortest accepted query, after strip()
MinQueryLen == 3

\* not request.query or len(request.query.strip()) < 3
QueryRejected(q) == Len(q) = 0 \/ Len(Strip(q)) < MinQueryLen

(* ------------------------------- inputs -------------------------------- *)
n_java_developer_test == <<"J","a","v","a"," ","D","e","v","e","l","o","p","e","r"," ","T","e","s","t">>
n_java_spring == <<"J","a","v","a"," ","S","p","r","i","n","g"," ","D","e","v","e","l","o","p","e","r"," ","T","e","s","t">>
n_team_collab == <<"T","e","a","m"," ","C","o","l","l","a","b","o","r","a","t","i","o","n"," ","A","s","s","e","s","s","m","e","n","t">>
n_leadership_report == <<"L","e","a","d","e","r","s","h","i","p"," ","R","e","p","o","r","t">>
n_numerical == <<"N","u","m","e","r","i","c","a","l"," ","R","e","a","s","o","n","i","n","g">>
n_python_coding == <<"P","y","t","h","o","n"," ","C","o","d","i","n","g">>
d_java_team == <<"j","a","v","a"," ","s","p","r","i","n","g"," ","f","o","r"," ","t","e","a","m"," ","l","e","a","d","s">>
d_data == <<"D","a","t","a"," ","a","n","a","l","y","s","i","s"," ","t","e","s","t">>
j_senior_manager == <<"S","e","n","i","o","r"," ","M","a","n","a","g","e","r">>
j_entry == <<"E","n","t","r","y","-","L","e","v","e","l">>
w_j2ee == <<"j","2","e","e">>
w_java == <<"j","a","v","a">>
w_python3 == <<"p","y","t","h","o","n","3">>
k_Java == <<"J","a","v","a">>
k_sp_Teamwork == <<" ","T","e","a","m","w","o","r","k">>
k_TEAM == <<"T","E","A","M">>
k_Rust == <<"R","u","s","t">>
k_Analytics == <<"A","n","a","l","y","t","i","c","s">>
k_Py == <<"P","y">>
r_java_developer == <<"J","a","v","a"," ","D","e","v","e","l","o","p","e","r">>
r_team_lead == <<"T","e","a","m"," ","L","e","a","d"," ","t","e","a","m">>
v_senior == <<"S","e","n","i","o","r">>
q_plain == <<"h","i","r","e"," ","j","a","v","a"," ","d","e","v">>
q_40min == <<"d","o","n","e"," ","i","n"," ","4","0"," ","m","i","n">>
q_1hour == <<"m","a","x"," ","1"," ","H","o","u","r">>
q_900 == <<"9","0","0"," ","m","i","n","u","t","e","s">>
q_hour_min == <<"1"," ","h","o","u","r"," ","o","r"," ","3","0"," ","m","i","n","u","t","e","s">>
q_2h == <<"u","n","d","e","r"," ","2","h">>
q_3hrs == <<"3"," ","H","r","s"," ","m","a","x">>
q_0min == <<"0"," ","m","i","n">>
q_short == <<"a","b">>
q_blank == <<" "," ","a"," "," ">>

\* duration texts of catalogue entries
u_45_minutes == <<"A","p","p","r","o","x","i","m","a","t","e"," ","c","o","m","p","l","e","t","i","o","n"," ","t","i","m","e",":"," ","4","5"," ","m","i","n","u","t","e","s">>
u_hour_30 == <<"1"," ","h","o","u","r"," ","3","0"," ","m","i","n","u","t","e","s">>
u_20_hours == <<"2","0"," ","H","o","u","r","s">>
u_0_minutes == <<"0"," ","m","i","n","u","t","e","s">>
u_untimed == <<"U","n","t","i","m","e","d">>
u_90_min_2_hr == <<"9","0"," ","m","i","n",","," ","2"," ","h","r">>
u_max_60 == <<"m","i","n","u","t","e","s"," ","="," ","6","0">>

Cand(url, name, description, test_types, job_level, skills, similarity) ==
    [url |-> url, name |-> name, description |-> description,
     test_types |-> test_types, job_level |-> job_level, skills |-> skills,
     similarity_score |-> similarity]

\* the two candidates of the ranking scenario
cA == Cand("A", n_java_developer_test, <<>>, <<"K">>, <<>>, <<>>, 80)
cB == Cand("B", n_team_collab, <<>>, <<"P">>, <<>>, <<>>, 60)
cC == Cand("C", n_leadership_report, d_java_team, <<"K", "P">>, j_senior_manager,
           <<k_Java, k_sp_Teamwork>>, 70)
cD == Cand("D", n_numerical, d_data, <<"A">>, j_entry, <<>>, 90)
cE == Cand("E", n_python_coding, <<>>, <<"K", "S">>, j_entry, <<k_TEAM>>, 60)
\* cA's twin with one more keyword in its name
cH == Cand("H", n_java_spring, <<>>, <<"K">>, <<>>, <<>>, 80)

Catalog == {cA, cB, cC, cD, cE}

\* two catalogue entries for one url that differ (the catalogue is not keyed by
\* url: the same page scraped twice, the second time without its description)
cF_first == Cand("F", n_leadership_report, d_java_team, <<"K">>, j_senior_manager, <<>>, 70)
cF_second == Cand("F", n_leadership_report, <<>>, <<"P">>, j_senior_manager, <<>>, 50)
\* a third entry for that url that declares neither primary category, and a
\* further candidate of neither primary category
cF_other == Cand("F", n_leadership_report, <<>>, <<"A">>, j_senior_manager, <<>>, 95)
cG == Cand("G", n_numerical, <<>>, <<"S">>, <<>>, <<>>, 85)

\* every retrieval result of at most MaxPool entries (an entry may repeat: the
\* catalogue is not deduplicated by url)
RECURSIVE SeqsUpTo(_, _)
SeqsUpTo(S, k) ==
    IF k = 0 THEN {<<>>}
    ELSE LET shorter == SeqsUpTo(S, k - 1)
         IN  shorter \cup {Append(p, c) : p \in {x \in shorter : Len(x) = k - 1}, c \in S}

BalancePools == SeqsUpTo(Catalog, MaxPool)

TypeLists == {<<>>, <<"K">>, <<"P">>, <<"K", "P">>, <<"A">>}

Analysis(job_level, skills, types, role) ==
    [job_level |-> job_level, required_skills |-> skills,
     required_test_types |-> types, role |-> role]

Ok(analysis) == [kind |-> "ok", analysis |-> analysis]
\* the model call raised / its text was not JSON / no analyser was constructed
Broken(kind) == [kind |-> kind, analysis |-> FallbackAnalysis]

SkillLists == {<<>>, <<k_Java>>, <<k_Rust>>, <<k_Analytics>>, <<k_Py, w_python3>>}

\* responses that vary the job level and the role
ContextResponses ==
    {Ok(Analysis(j, s, <<"K", "P">>, r)) :
        j \in {Missing, Null, Str(<<>>), Str(v_senior)},
        s \in {<<>>, <<w_java>>},
        r \in {Missing, Str(r_team_lead)}}
    \cup {Ok(Analysis(Str(<<>>), <<w_java>>, <<"K", "P">>, Null))}

\* responses that vary the skills and the required categories
SkillResponses ==
    {Ok(Analysis(Str(<<>>), s, t, Str(r_java_developer))) :
        s \in SkillLists, t \in {<<"K", "P">>, <<"P">>}}
    \cup {Ok(Analysis(Missing, <<k_Rust, w_j2ee>>, <<"K">>, Missing))}

BrokenResponses == {Broken("raise"), Broken("malformed"), Broken("absent")}

ScoringResponses == ContextResponses \cup SkillResponses \cup BrokenResponses

Queries == {q_plain, q_40min, q_1hour, q_900, q_short, q_blank, <<>>}

\* catalogue entries as shl_assessments.json holds them
Assessment(url, name, description, test_types, job_level, skills) ==
    [url |-> url, name |-> name, description |-> description,
     test_types |-> test_types, job_level |-> job_level, skills |-> skills]

aA == Assessment("A", n_java_developer_test, <<>>, <<"K">>, <<>>, <<>>)
aB == Assessment("B", n_team_collab, d_java_team, <<"P">>, j_entry, <<w_java>>)
aC == Assessment("C", n_leadership_report, d_java_team, <<"K", "P">>, j_senior_manager,
                 <<k_Java, k_TEAM>>)
aD == Assessment("D", n_numerical, d_data, <<"A", "S">>, j_entry, <<>>)
aE == Assessment("E", n_python_coding, <<>>, <<>>, <<>>, <<k_Py>>)
aF == Assessment("F", n_java_spring, <<>>, <<"P", "K", "A">>, <<>>, <<>>)

StoreEntries == {aA, aB, aC, aD, aE, aF}
\* catalogues of one or two entries with different urls
Catalogues ==
    {<<a>> : a \in StoreEntries}
    \cup {c \in StoreEntries \X StoreEntries : c[1] # c[2]}
\* similarity scores search may report
Similarities == {60, 80}

\* inputs of the two duration parsers
DurationQueries == Queries \cup {q_hour_min, q_2h, q_3hrs, q_0min}
DurationTexts ==
    {<<>>, u_45_minutes, u_hour_30, u_20_hours, u_0_minutes, u_untimed,
     u_90_min_2_hr, u_max_60}

OtherUrls == <<"O1", "O2", "O3", "O4", "O5">>

\* the backfill scenario: one Knowledge candidate, then five candidates of
\* neither primary category; sims gives each a similarity level
BackfillPool(sims) ==
    <<Cand("K1", n_java_developer_test, <<>>, <<"K">>, <<>>, <<>>, 30 * sims[1])>>
    \o [i \in 1..5 |-> Cand(OtherUrls[i], n_numerical, <<>>, <<"A">>, <<>>, <<>>,
                             30 * sims[i + 1])]

BackfillPools == {BackfillPool(sims) : sims \in [1..6 -> 1..ScoreLevels]}

(* ---------------------------- state machine ---------------------------- *)
VARIABLES
    query,            \* request.query / the query of the offline call
    n_results,        \* request.n_results
    response,         \* how the classifier answers this query
    pool,             \* what vector_store.search returns for this query
    calls,            \* ranking calls made so far
    path,             \* the entry point of the last call
    status,           \* its outcome
    error,            \* the exception that ended it, if any
    expanded_skills,  \* its expanded_skills list
    scored,           \* its scored_results (pool order)
    results,          \* its returned list
    served,           \* the entry points that have answered these inputs so far
    frames,           \* the local variables of each request in flight
    heap,             \* the result dictionaries search has built, by identity
    duration_str,     \* the duration text of a catalogue entry
    duration_constraint, \* what extract_duration_constraint returned for query
    res_duration,     \* what parse_duration returned for duration_str
    duration_points,  \* what the duration comparison added to metadata_score
    evaluated,        \* the duration functions applied so far
    catalogue,        \* the assessments handed to add_assessments
    collection        \* the metadata held by the vector store, in id order

inputs == <<query, n_results, response, pool>>
durations == <<duration_str, duration_constraint, res_duration, duration_points,
               evaluated>>
vars == <<query, n_results, response, pool, calls, path, status, error,
          expanded_skills, scored, results, served, frames, heap,
          duration_str, duration_constraint, res_duration, duration_points,
          evaluated, catalogue, collection>>
store == <<catalogue, collection>>

\* the vector store is not looked at
NoStore == catalogue = <<>> /\ collection = <<>>

\* no duration function has been applied
NoDurations ==
    /\ duration_str = <<>>
    /\ duration_constraint = None
    /\ res_duration = UnknownDuration
    /\ duration_points = 0
    /\ evaluated = {}

InitBalance ==
    /\ pool \in BalancePools
    /\ response \in {Ok(Analysis(Str(<<>>), <<>>, t, Missing)) : t \in TypeLists}
    /\ n_results \in 1..MaxN
    /\ query = q_plain

InitScoring ==
    /\ pool \in {<<cA, cB>>, <<cB, cA>>, <<cE, cC, cD, cA>>, <<cA, cH, cC, cB>>}
    /\ response \in ScoringResponses
    /\ n_results = 2
    /\ query = q_plain

InitQueries ==
    /\ pool = <<cC, cA, cB>>
    /\ response \in {Ok(Analysis(Str(v_senior), <<w_java>>, <<"K", "P">>, Missing)),
                     Ok(Analysis(Missing, <<>>, <<>>, Missing)),
                     Broken("raise")}
    /\ n_results = 2
    /\ query \in Queries

InitBackfill ==
    /\ pool \in BackfillPools
    /\ response \in {Ok(Analysis(Str(<<>>), <<>>, <<"K">>, Missing))}
    /\ n_results = 3
    /\ query = q_plain

InitRepeated ==
    /\ pool \in {<<cF_first, cF_second>>, <<cF_second, cF_first>>,
                  <<cF_first, cB, cF_second>>, <<cA, cF_first, cF_second>>,
                  <<cF_other, cF_second, cD, cG>>}
    /\ response \in {Ok(Analysis(Str(<<>>), <<>>, t, Missing)) : t \in {<<"K", "P">>, <<"A">>}}
    /\ n_results \in 1..MaxN
    /\ query = q_plain

Init ==
    /\ (InitBalance \/ InitScoring \/ InitQueries \/ InitBackfill \/ InitRepeated)
    /\ calls = 0
    /\ path = "none"
    /\ status = "idle"
    /\ error = ""
    /\ expanded_skills = <<>>
    /\ scored = <<>>
    /\ results = <<>>
    /\ served = {}
    /\ frames = <<>>
    /\ heap = <<>>
    /\ NoDurations
    /\ NoStore

Record(p, out, failure) ==
    /\ calls' = calls + 1
    /\ path' = p
    /\ status' = IF out.error = "" THEN "ok" ELSE failure
    /\ error' = out.error
    /\ expanded_skills' = out.expanded
    /\ scored' = out.scored
    /\ results' = out.results
    /\ served' = served \cup {p}
    /\ UNCHANGED <<inputs, frames, heap, durations, store>>

\* _recommend_assessments: the 400 raised for a short query and every other
\* exception are caught by `except Exception` and reported as a 500
RecommendApi ==
    /\ calls < MaxCalls
    /\ response.kind # "absent"
    /\ IF QueryRejected(query)
       THEN Record("api", Failed("HTTPException400"), "http500")
       ELSE \E order \in Orders(ExpandSet(analyse_query(response).required_skills)) :
                Record("api",
                       RankCall(analyse_query(response), query, pool, n_results, order),
                       "http500")

\* get_recommendations_local: no validation; an exception leaves the function
RecommendLocal ==
    /\ calls < MaxCalls
    /\ LET analysis == IF response.kind = "absent" THEN LocalDefaultAnalysis
                       ELSE analyse_query(response)
       IN  \E order \in Orders(ExpandSet(analysis.required_skills)) :
               Record("local", LocalRankCall(analysis, query, pool, n_results, order),
                      "raised")

Next == RecommendApi \/ RecommendLocal

Spec == Init /\ [][Next]_vars

(* ------------------------- requests in flight -------------------------- *)
\* Each request runs _recommend_assessments on its own frame; the steps of
\* different requests interleave freely.  The dictionaries that search returns
\* live on the heap: scoring writes the scores into them.
Calls == 1..MaxInFlight

Request(n, resp) == [n |-> n, response |-> resp]

Requests ==
    {Request(2, Ok(Analysis(Str(v_senior), <<k_Rust>>, <<"K", "P">>, Str(r_java_developer)))),
     Request(1, Ok(Analysis(Str(<<>>), <<>>, <<"P">>, Missing))),
     Request(3, Ok(Analysis(Missing, <<>>, <<"A">>, Str(r_team_lead))))}

NoContext ==
    [expanded_skills |-> <<>>, llm_job_level |-> <<>>, llm_test_types |-> <<>>,
     llm_role |-> <<>>, duration_constraint |-> None]

NewFrame(r) ==
    [pc |-> "start", request |-> r, analysis |-> FallbackAnalysis, ctx |-> NoContext,
     all_results |-> <<>>, i |-> 0, status |-> "running", results |-> <<>>]

\* mutant: search hands every request the same dictionary for a catalogue entry
Ref_Shared(c, i) == <<1, i>>

\* the identity of the dictionary search builds for entry i of request c's
\* result list: a new dictionary on every call
Ref(c, i) == <<c, i>>

\* lines 204-211: validation, the classifier, the duration limit, the skills
Analyse(c) ==
    /\ frames[c].pc = "start"
    /\ LET analysis == analyse_query(frames[c].request.response)
       IN  \E order \in Orders(ExpandSet(analysis.required_skills)) :
               frames' = [frames EXCEPT ![c] =
                   IF QueryRejected(query)
                   THEN [@ EXCEPT !.pc = "done", !.status = "http500"]
                   ELSE [@ EXCEPT !.pc = "search", !.analysis = analysis,
                                  !.ctx = [NoContext EXCEPT
                                      !.expanded_skills = order,
                                      !.duration_constraint =
                                          extract_duration_constraint(query)]]]
    /\ UNCHANGED <<inputs, calls, path, status, error, expanded_skills, scored,
                   results, served, heap, durations, store>>

\* lines 213-226: the retrieval, then the job level, role and required categories
Search(c) ==
    /\ frames[c].pc = "search"
    /\ LET analysis == frames[c].analysis
           refs == [i \in 1..Len(pool) |-> Ref(c, i)]
       IN  /\ heap' = [r \in Range(refs) |->
                          pool[CHOOSE i \in 1..Len(pool) : refs[i] = r]] @@ heap
           /\ frames' = [frames EXCEPT ![c] =
                 IF analysis.job_level.tag = "none" \/ analysis.role.tag = "none"
                 THEN [@ EXCEPT !.pc = "done", !.status = "http500"]
                 ELSE [@ EXCEPT !.pc = "score", !.all_results = refs, !.i = 1,
                                !.ctx = [@ EXCEPT
                                    !.llm_job_level = Lower(analysis.job_level.v),
                                    !.llm_test_types =
                                        NormaliseTypes(analysis.required_test_types),
                                    !.llm_role = Lower(analysis.role.v)]]]
    /\ UNCHANGED <<inputs, calls, path, status, error, expanded_skills, scored,
                   results, served, durations, store>>

\* lines 229-278: one pass of the scoring loop writes the scores into the
\* dictionary of the current entry
ScoreOne(c) ==
    /\ frames[c].pc = "score"
    /\ IF frames[c].i > Len(frames[c].all_results)
       THEN /\ frames' = [frames EXCEPT ![c].pc = "balance"]
            /\ heap' = heap
       ELSE LET ref == frames[c].all_results[frames[c].i]
            IN  /\ heap' = [heap EXCEPT ![ref] = Scored(heap[ref], frames[c].ctx)]
                /\ frames' = [frames EXCEPT ![c].i = @ + 1]
    /\ UNCHANGED <<inputs, calls, path, status, error, expanded_skills, scored,
                   results, served, durations, store>>

\* lines 280-344: the sort, the buckets, the selection and the response; a
\* dictionary without final_score raises KeyError in the sort key
Respond(c) ==
    /\ frames[c].pc = "balance"
    /\ LET recs == [i \in 1..Len(frames[c].all_results) |-> heap[frames[c].all_results[i]]]
       IN  frames' = [frames EXCEPT ![c] =
               IF \E i \in 1..Len(recs) : "final_score" \notin DOMAIN recs[i]
               THEN [@ EXCEPT !.pc = "done", !.status = "http500"]
               ELSE [@ EXCEPT !.pc = "done", !.status = "ok",
                              !.results = Balance(recs, frames[c].ctx.llm_test_types,
                                                  frames[c].request.n)]]
    /\ UNCHANGED <<inputs, calls, path, status, error, expanded_skills, scored,
                   results, served, heap, durations, store>>

ConcurrentInit ==
    /\ query = q_plain
    /\ n_results = 1
    /\ response = Broken("absent")
    /\ pool \in {<<cA, cB>>, <<cC, cA, cB>>}
    /\ calls = 0
    /\ path = "none"
    /\ status = "idle"
    /\ error = ""
    /\ expanded_skills = <<>>
    /\ scored = <<>>
    /\ results = <<>>
    /\ served = {}
    /\ frames \in [Calls -> {NewFrame(r) : r \in Requests}]
    /\ heap = <<>>
    /\ NoDurations
    /\ NoStore

ConcurrentNext ==
    \E c \in Calls : Analyse(c) \/ Search(c) \/ ScoreOne(c) \/ Respond(c)

ConcurrentSpec == ConcurrentInit /\ [][ConcurrentNext]_vars

\* what request c returns when it is the only request: the handler run in one piece
Alone(c) ==
    LET analysis == analyse_query(frames[c].request.response)
    IN  RankCall(analysis, query, pool, frames[c].request.n,
                 frames[c].ctx.expanded_skills)

(* ------------------------- the duration functions --------------------- *)
\* The two parsers and the duration comparison of the scoring loop, applied to
\* a query text and to the duration text of one catalogue entry.
ranking == <<n_results, response, pool, calls, path, status, error,
             expanded_skills, scored, results, served, frames, heap, store>>

\* duration_constraint = extract_duration_constraint(query)
ExtractConstraint ==
    /\ "extract_duration_constraint" \notin evaluated
    /\ duration_constraint' = extract_duration_constraint(query)
    /\ evaluated' = evaluated \cup {"extract_duration_constraint"}
    /\ UNCHANGED <<query, ranking, duration_str, res_duration, duration_points>>

\* res_duration = parse_duration(duration_str)
ParseDuration ==
    /\ "parse_duration" \notin evaluated
    /\ res_duration' = parse_duration(duration_str)
    /\ evaluated' = evaluated \cup {"parse_duration"}
    /\ UNCHANGED <<query, ranking, duration_str, duration_constraint, duration_points>>

\* lines 264-267 for a candidate whose duration text is duration_str
AddDurationPoints ==
    /\ "extract_duration_constraint" \in evaluated
    /\ "comparison" \notin evaluated
    /\ duration_points' = DurationTerm([duration |-> duration_str], duration_constraint)
    /\ evaluated' = evaluated \cup {"comparison"}
    /\ UNCHANGED <<query, ranking, duration_str, duration_constraint, res_duration>>

DurationInit ==
    /\ query \in DurationQueries
    /\ duration_str \in DurationTexts
    /\ duration_constraint = None
    /\ res_duration = UnknownDuration
    /\ duration_points = 0
    /\ evaluated = {}
    /\ n_results = 1
    /\ response = Broken("absent")
    /\ pool = <<>>
    /\ calls = 0
    /\ path = "none"
    /\ status = "idle"
    /\ error = ""
    /\ expanded_skills = <<>>
    /\ scored = <<>>
    /\ results = <<>>
    /\ served = {}
    /\ frames = <<>>
    /\ heap = <<>>
    /\ NoStore

DurationNext == ExtractConstraint \/ ParseDuration \/ AddDurationPoints

DurationSpec == DurationInit /\ [][DurationNext]_vars

(* ------------------------ filling and searching the store -------------- *)
\* add_assessments: one metadata per catalogue entry, in the catalogue's order
AddAssessments ==
    /\ collection = <<>>
    /\ collection' = [i \in 1..Len(catalogue) |-> Metadata(catalogue[i])]
    /\ UNCHANGED <<query, n_results, response, pool, calls, path, status, error,
                   expanded_skills, scored, results, served, frames, heap,
                   durations, catalogue>>

\* search: the stored entries, nearest first, each rebuilt from its metadata
SearchStore ==
    /\ collection # <<>>
    /\ pool = <<>>
    /\ \E order \in Orders(1..Len(collection)) :
       \E sims \in [1..Len(collection) -> Similarities] :
          /\ \A i \in 1..(Len(collection) - 1) : sims[i] >= sims[i + 1]
          /\ pool' = [i \in 1..Len(collection) |->
                         SearchResult(collection[order[i]], sims[i])]
    /\ UNCHANGED <<query, n_results, response, calls, path, status, error,
                   expanded_skills, scored, results, served, frames, heap,
                   durations, store>>

StoreInit ==
    /\ catalogue \in Catalogues
    /\ collection = <<>>
    /\ pool = <<>>
    /\ query = q_plain
    /\ n_results = 1
    /\ response = Broken("absent")
    /\ calls = 0
    /\ path = "none"
    /\ status = "idle"
    /\ error = ""
    /\ expanded_skills = <<>>
    /\ scored = <<>>
    /\ results = <<>>
    /\ served = {}
    /\ frames = <<>>
    /\ heap = <<>>
    /\ NoDurations

StoreNext == AddAssessments \/ SearchStore

StoreSpec == StoreInit /\ [][StoreNext]_vars

(* ------------------------ views of the last call ----------------------- *)
\* the analysis the last call worked from
CallAnalysis ==
    IF response.kind = "absent" THEN LocalDefaultAnalysis ELSE analyse_query(response)

\* its required categories after normalisation
ReqTypes == NormaliseTypes(CallAnalysis.required_test_types)

BestK == Bucket(SortDesc(scored), "K")
BestP == Bucket(SortDesc(scored), "P")
BestOther == Bucket(SortDesc(scored), "O")
\* final_recommendations, and unique_recs as it enters the final sort
Selected == Selection(BestK, BestP, ReqTypes, n_results)
BeforeFinalSort == Backfill(UniqueRecs(Selected), BestOther, n_results)

PoolUrls == Range(Urls(pool))
UrlsOfType(t) == {pool[i].url : i \in {j \in 1..Len(pool) : InList(t, pool[j].test_types)}}
ResultUrlsOfType(t) ==
    {results[i].url : i \in {j \in 1..Len(results) : InList(t, results[j].test_types)}}
\* every url of the pool names one record (entries may repeat, not differ)
OneRecordPerUrl ==
    \A i, j \in 1..Len(pool) : pool[i].url = pool[j].url => pool[i] = pool[j]
Descending(s) == \A i \in 1..(Len(s) - 1) : s[i].final_score >= s[i + 1].final_score

\* the categories the classifier produced, before normalisation
Produced == CallAnalysis.required_test_types
OnlyK == InList("K", Produced) /\ ~InList("P", Produced)
OnlyP == InList("P", Produced) /\ ~InList("K", Produced)
\* s is the first k entries of bucket b (all of b when it is shorter)
IsPrefix(s, b, k) == Len(s) = Min(k, Len(b)) /\ \A i \in 1..Len(s) : s[i] = b[i]

NoJobLevel == CallAnalysis.job_level.tag = "missing" \/ CallAnalysis.job_level.v = <<>>
NoRole == CallAnalysis.role.tag = "missing" \/ CallAnalysis.role.v = <<>>
NoDuration == extract_duration_constraint(query) \in {None, 0}

(* ------------------------------- claims -------------------------------- *)

\* C1: a completed ranking call returns exactly min(n, number of distinct
\* identifiers in the pool) entries, whatever categories are required or declared.
C1_BoundedSize ==
    status = "ok" => Len(results) = Min(n_results, Cardinality(PoolUrls))

\* C2: no identifier (url) appears more than once in the result of a ranking
\* call, also when a candidate sits in both the Knowledge and Personality bucket.
C2_NoDuplicates ==
    status = "ok" =>
        \A i, j \in 1..Len(results) : results[i].url = results[j].url => i = j

\* a call whose selection held one url twice (once from each bucket) and that
\* still returned two entries or more
C2_Witness ==
    /\ status = "ok"
    /\ \E i, j \in 1..Len(Selected) : i # j /\ Selected[i].url = Selected[j].url
    /\ Len(results) >= 2

\* C3: the result of a ranking call is ordered by final_score descending,
\* whichever balancing branch built its membership.
C3_Descending == status = "ok" => Descending(results)

\* a call whose balanced list was not in score order before the final sort
C3_Witness ==
    /\ status = "ok"
    /\ Len(results) >= 2
    /\ ~Descending(BeforeFinalSort)

\* C4: when Knowledge and Personality are both required and the pool holds at
\* least floor(n/2) candidates of each, the result holds at least floor(n/2)
\* Knowledge candidates and at least floor(n/2) Personality candidates.
\* (A candidate is a url with the categories of its record, so the claim speaks
\* of pools in which a url names one record.)
C4_Coverage ==
    (/\ status = "ok"
     /\ OneRecordPerUrl
     /\ Branch(ReqTypes) = "both"
     /\ Cardinality(UrlsOfType("K")) >= n_results \div 2
     /\ Cardinality(UrlsOfType("P")) >= n_results \div 2)
    => /\ Cardinality(ResultUrlsOfType("K")) >= n_results \div 2
       /\ Cardinality(ResultUrlsOfType("P")) >= n_results \div 2

\* both required, n >= 2, a candidate declaring both categories is returned, and
\* a candidate of neither category outscores a returned one and is left out
C4_Witness ==
    /\ status = "ok"
    /\ OneRecordPerUrl
    /\ Branch(ReqTypes) = "both"
    /\ n_results >= 2
    /\ Cardinality(UrlsOfType("K")) >= n_results \div 2
    /\ Cardinality(UrlsOfType("P")) >= n_results \div 2
    /\ \E i \in 1..Len(results) : is_k(results[i]) /\ is_p(results[i])
    /\ \E o \in 1..Len(scored) :
          /\ ~is_k(scored[o]) /\ ~is_p(scored[o])
          /\ ~HasUrl(results, scored[o].url)
          /\ \E i \in 1..Len(results) : scored[o].final_score > results[i].final_score

C7_ClassifierFailureTolerated ==
    (/\ calls >= 1
     /\ response.kind \in {"raise", "malformed"}
     /\ ~(path = "api" /\ QueryRejected(query)))
    => /\ status = "ok"
       /\ \E order \in Orders({}) :
             results = RankCall(LocalDefaultAnalysis, query, pool, n_results, order).results

\* C8: pool [A 'Java Developer Test' {K} 0.8, B 'Team Collaboration Assessment'
\* {P} 0.6], skill java, both categories required, n = 2: the result is [A, B].
C8_Scenario ==
    (/\ status = "ok"
     /\ pool = <<cA, cB>>
     /\ Range(expanded_skills) = ExpandSet(<<w_java>>)
     /\ Branch(ReqTypes) = "both"
     /\ n_results = 2)
    => Urls(results) = <<"A", "B">>

\* the scenario has run: A scored on its name, B did not score on keywords
C8_Witness ==
    /\ status = "ok"
    /\ pool = <<cA, cB>>
    /\ Range(expanded_skills) = ExpandSet(<<w_java>>)
    /\ Branch(ReqTypes) = "both"
    /\ n_results = 2
    /\ NoRole
    /\ scored[1].keyword_score = NamePoints
    /\ scored[2].keyword_score = 0

\* the backfill scenario: only Knowledge asked for, one Knowledge candidate and
\* five candidates of neither primary category, n = 3
BackfillScenario ==
    /\ status = "ok"
    /\ pool \in BackfillPools
    /\ CallAnalysis.required_test_types = <<"K">>
    /\ n_results = 3

ScoreOf(u) == scored[CHOOSE i \in 1..Len(scored) : scored[i].url = u].final_score
PoolIndex(u) == CHOOSE i \in 1..Len(pool) : pool[i].url = u
\* u ranks ahead of v among the candidates of neither category
Ahead(u, v) ==
    \/ ScoreOf(u) > ScoreOf(v)
    \/ ScoreOf(u) = ScoreOf(v) /\ PoolIndex(u) < PoolIndex(v)
\* the two top-scored candidates of neither category
TopTwoOthers ==
    {u \in Range(OtherUrls) : Cardinality({v \in Range(OtherUrls) : Ahead(v, u)}) < 2}

\* C9 (as stated): in the backfill scenario the result is the Knowledge candidate
\* first, followed by the 2 top-scored Other candidates, for every score assignment.
C9_KnowledgeFirst ==
    BackfillScenario =>
        /\ Len(results) = 3
        /\ results[1].url = "K1"
        /\ {results[2].url, results[3].url} = TopTwoOthers

\* C9 (amended): the result holds the Knowledge candidate and the 2 top-scored
\* Other candidates, in final_score descending order; the Knowledge candidate
\* stands behind exactly the selected Other candidates that outscore it.
C9_BackfillMembership ==
    BackfillScenario =>
        /\ Len(results) = 3
        /\ Range(Urls(results)) = {"K1"} \cup TopTwoOthers
        /\ Descending(results)
        /\ \E i \in 1..3 :
              /\ results[i].url = "K1"
              /\ i = 1 + Cardinality({u \in TopTwoOthers : ScoreOf(u) > ScoreOf("K1")})

\* the scenario with an Other candidate returned ahead of the Knowledge one
C9_Witness ==
    /\ BackfillScenario
    /\ Len(results) = 3
    /\ results[1].url # "K1"
    /\ HasUrl(results, "K1")

\* C10: skill expansion is idempotent as a set function: expanding the expanded
\* list again yields the same set.
C10_Idempotent ==
    status = "ok" => ExpandSet(expanded_skills) = Range(expanded_skills)

\* an expansion of mixed-case input that pulled in a whole synonym group next
\* to a skill outside the table
C10_Witness ==
    /\ status = "ok"
    /\ \E i \in 1..Len(CallAnalysis.required_skills) :
          Lower(CallAnalysis.required_skills[i]) # CallAnalysis.required_skills[i]
    /\ \E i \in 1..Len(CallAnalysis.required_skills) :
          \A g \in 1..Len(SKILL_SYNONYMS) :
              ~InList(Lower(CallAnalysis.required_skills[i]), SKILL_SYNONYMS[g])
    /\ Len(expanded_skills) > Len(CallAnalysis.required_skills) + 1

\* C11: every input skill appears lower-cased in the expansion, and a skill
\* whose lower-cased form is in a group's alias list (as the key or as any other
\* alias) brings in every alias of that group.
C11_GroupByMembership ==
    status = "ok" =>
        \A i \in 1..Len(CallAnalysis.required_skills) :
            LET s == Lower(CallAnalysis.required_skills[i])
            IN  /\ s \in Range(expanded_skills)
                /\ \A g \in 1..Len(SKILL_SYNONYMS) :
                      InList(s, SKILL_SYNONYMS[g])
                      => Range(SKILL_SYNONYMS[g]) \subseteq Range(expanded_skills)

\* a mixed-case input skill that is an alias of a group but not its key, with
\* the key of that group in the expansion
C11_Witness ==
    /\ status = "ok"
    /\ \E i \in 1..Len(CallAnalysis.required_skills) :
          LET s == Lower(CallAnalysis.required_skills[i])
          IN  /\ s # CallAnalysis.required_skills[i]
              /\ \E g \in 1..Len(SKILL_SYNONYMS) :
                    /\ InList(s, SKILL_SYNONYMS[g])
                    /\ s # SKILL_SYNONYMS[g][1]
                    /\ SKILL_SYNONYMS[g][1] \in Range(expanded_skills)

\* C12: the result of a ranking call never has more than n entries.
C12_AtMostN == status = "ok" => Len(results) <= n_results

\* a call over a pool with more distinct urls than n, and more Knowledge and
\* Personality candidates than n, that returned exactly n entries
C12_Witness ==
    /\ status = "ok"
    /\ Cardinality(PoolUrls) > n_results
    /\ Len(BestK) + Len(BestP) > n_results
    /\ Len(results) = n_results

\* C13: the serving path and the offline path are the same ranking: on the same
\* query (one the serving path's validation accepts), classifier analysis, pool
\* and n, a call through one path after a call through the other completes
\* exactly when the other did and returns the same ordered list of urls.
C13_SameRanking ==
    [][(/\ calls >= 1
        /\ calls' = calls + 1
        /\ path' # path
        /\ ~QueryRejected(query)
        /\ response.kind # "absent")
       => /\ (status' = "ok") <=> (status = "ok")
          /\ Urls(results') = Urls(results)]_vars

\* both paths have answered the same inputs with a list of two or more urls,
\* over a context with expanded skills and a required category list to normalise
C13_Witness ==
    /\ served = {"api", "local"}
    /\ status = "ok"
    /\ ~QueryRejected(query)
    /\ Len(results) >= 2
    /\ Len(expanded_skills) >= 2
    /\ \E i \in 1..Len(scored) : scored[i].keyword_score > 0
    /\ CallAnalysis.required_test_types # ReqTypes

\* C14: requests in flight share no mutable state: a step of one request changes
\* no other request's frame and no dictionary of another request's result list,
\* and a request that finishes returns what it returns when run alone, whatever
\* the interleaving.
C14_NoSharedState ==
    [][/\ \E c \in Calls : \A d \in Calls \ {c} :
             /\ frames'[d] = frames[d]
             /\ \A i \in 1..Len(frames[d].all_results) :
                   heap'[frames[d].all_results[i]] = heap[frames[d].all_results[i]]
       /\ \A c \in Calls :
             (frames'[c].pc = "done" /\ frames[c].pc # "done") =>
                 /\ frames'[c].status = "ok"
                 /\ frames'[c].results = Alone(c).results]_vars

\* one request has answered with two or more entries while another request,
\* with a different n and context, is in the middle of its scoring loop
C14_Witness ==
    \E c, d \in Calls :
        /\ frames[c].pc = "done"
        /\ Len(frames[c].results) >= 2
        /\ frames[d].pc = "score"
        /\ frames[d].i = 2
        /\ frames[d].request # frames[c].request

\* C15: a request whose query is empty or shorter than 3 characters after
\* trimming is answered with HTTP status 400, and neither classification,
\* retrieval nor ranking has run.
C15_Rejected400 ==
    (calls >= 1 /\ path = "api" /\ QueryRejected(query))
    => /\ status = "http400"
       /\ scored = <<>>
       /\ results = <<>>

\* C16 (as stated): when exactly one of Knowledge / Personality is in the
\* categories the classifier produced, the selection before backfill is the first
\* n entries of that category's bucket and holds no candidate from outside it.
C16_SingleBucket ==
    status = "ok" =>
        /\ OnlyK => /\ IsPrefix(Selected, BestK, n_results)
                    /\ \A i \in 1..Len(Selected) : is_k(Selected[i])
        /\ OnlyP => /\ IsPrefix(Selected, BestP, n_results)
                    /\ \A i \in 1..Len(Selected) : is_p(Selected[i])

\* C16 (amended): when the classifier produced Personality without Knowledge,
\* the selection before backfill is the first n entries of the personality
\* bucket and no candidate that declares Knowledge without Personality is
\* returned; when it produced Knowledge without Personality, Personality is
\* added to the required categories and the selection is the one of a query
\* that requires both.
C16_PersonalityOnly ==
    status = "ok" =>
        /\ OnlyP => /\ IsPrefix(Selected, BestP, n_results)
                    /\ \A i \in 1..Len(results) : is_k(results[i]) => is_p(results[i])
        /\ OnlyK => Selected = Selection(BestK, BestP, <<"K", "P">>, n_results)

\* Personality alone was produced, n >= 2 entries came from the personality
\* bucket, and a Knowledge candidate that outscores one of them is left out
C16_Witness ==
    /\ status = "ok"
    /\ OnlyP
    /\ n_results >= 2
    /\ Len(BestP) >= n_results
    /\ Len(results) = n_results
    /\ \E i \in 1..Len(scored) :
          /\ is_k(scored[i]) /\ ~is_p(scored[i])
          /\ ~HasUrl(results, scored[i].url)
          /\ \E j \in 1..Len(results) : scored[i].final_score > results[j].final_score

\* entry j of K[0], P[0], K[1], P[1], ... with an exhausted bucket skipped: the
\* buckets alternate over the first 2 * min(|K|, |P|) places, the rest of the
\* longer bucket follows
RoundRobinAt(k, p, j) ==
    LET m == Min(Len(k), Len(p))
    IN  IF j <= 2 * m
        THEN (IF j % 2 = 1 THEN k[(j + 1) \div 2] ELSE p[j \div 2])
        ELSE (IF Len(k) > m THEN k[j - m] ELSE p[j - m])

\* C17: when both Knowledge and Personality are required, the selection before
\* deduplication is K[0], P[0], K[1], P[1], ... with an exhausted bucket skipped,
\* cut at exactly n entries or at the end of both buckets, whichever comes first.
C17_RoundRobin ==
    (status = "ok" /\ InList("K", ReqTypes) /\ InList("P", ReqTypes)) =>
        /\ Len(Selected) = Min(n_results, Len(BestK) + Len(BestP))
        /\ \A j \in 1..Len(Selected) : Selected[j] = RoundRobinAt(BestK, BestP, j)

\* both required, buckets of different non-zero lengths, and the selection
\* reached n by going on with the longer bucket after the shorter one ran out
C17_Witness ==
    /\ status = "ok"
    /\ InList("K", ReqTypes) /\ InList("P", ReqTypes)
    /\ Min(Len(BestK), Len(BestP)) >= 1
    /\ Len(BestK) # Len(BestP)
    /\ Len(Selected) > 2 * Min(Len(BestK), Len(BestP))
    /\ Len(Selected) = n_results

\* the else branch of the selection ran: neither K nor P is wanted
FallbackTaken == ~InList("K", ReqTypes) /\ ~InList("P", ReqTypes)
\* the list that branch builds
FallbackList == Take(BestK, n_results \div 2) \o Take(BestP, n_results \div 2)

\* C18 (as stated): the fallback selection is taken only when the query context
\* yielded no required category at all.
C18_FallbackOnlyWhenEmpty ==
    (status = "ok" /\ FallbackTaken) => Len(Produced) = 0

\* C18 (amended): the fallback selection (first n div 2 of the knowledge bucket
\* plus first n div 2 of the personality bucket) is taken exactly when the
\* context yielded a non-empty category list that holds neither Knowledge nor
\* Personality; when it yielded no category at all the default [K, P] applies
\* and the selection is the round-robin interleave.
C18_FallbackWhenNeither ==
    status = "ok" =>
        /\ FallbackTaken <=>
              (Len(Produced) > 0 /\ ~InList("K", Produced) /\ ~InList("P", Produced))
        /\ FallbackTaken => Selected = FallbackList
        /\ Len(Produced) = 0 =>
              /\ Len(Selected) = Min(n_results, Len(BestK) + Len(BestP))
              /\ \A j \in 1..Len(Selected) : Selected[j] = RoundRobinAt(BestK, BestP, j)

\* a category list without K and P over a pool with two Knowledge candidates
\* and a Personality candidate, n = 3: one of each is selected
C18_Witness ==
    /\ status = "ok"
    /\ Len(Produced) > 0
    /\ FallbackTaken
    /\ n_results = 3
    /\ Len(BestK) >= 2
    /\ Len(BestP) >= 1
    /\ Len(Selected) = 2
    /\ Len(results) = 2

\* the first place of url u in a list
FirstIndex(s, u) == CHOOSE i \in 1..Len(s) : s[i].url = u /\ \A j \in 1..(i - 1) : s[j].url # u
\* entries with equal final_score stand in list s in the order they have in list t
TiesFollow(s, t) ==
    \A i, j \in 1..Len(s) :
        (i < j /\ s[i].final_score = s[j].final_score)
        => FirstIndex(t, s[i].url) < FirstIndex(t, s[j].url)

\* C19 (as stated): two candidates with equal final_score that both appear in
\* the result stand there in their relative order in the input pool.
C19_TiesInPoolOrder == status = "ok" => TiesFollow(results, pool)

\* C19 (amended): both sorts are stable and nothing else breaks a tie: equal
\* candidates keep their pool order inside each bucket, and equal candidates in
\* the result keep the order of the balanced list (the interleave K, P, K, P, ...
\* followed by the backfilled others), which need not be their pool order.
C19_TiesInBalancedOrder ==
    status = "ok" =>
        /\ TiesFollow(BestK, pool)
        /\ TiesFollow(BestP, pool)
        /\ TiesFollow(BestOther, pool)
        /\ TiesFollow(results, BeforeFinalSort)

\* a Knowledge and a Personality candidate with equal final_score are returned
\* in the opposite of their pool order
C19_Witness ==
    /\ status = "ok"
    /\ \E i, j \in 1..Len(results) :
          /\ i < j
          /\ results[i].final_score = results[j].final_score
          /\ is_k(results[i]) /\ is_p(results[j])
          /\ FirstIndex(pool, results[i].url) > FirstIndex(pool, results[j].url)

\* the entries of s whose url has not occurred earlier in s, in order
FirstOccurrences(s) ==
    LET keep == {i \in 1..Len(s) : \A j \in 1..(i - 1) : s[j].url # s[i].url}
    IN  [k \in 1..Cardinality(keep) |->
            s[CHOOSE i \in keep : Cardinality({j \in keep : j < i}) = k - 1]]

\* C20: deduplicating the selected list keeps, for each url, its first
\* occurrence (its position and its record) and the relative order of the kept
\* entries, and the records returned for selected urls are those first records.
C20_FirstOccurrenceWins ==
    status = "ok" =>
        /\ UniqueRecs(Selected) = FirstOccurrences(Selected)
        /\ \A i \in 1..Len(results) :
              HasUrl(Selected, results[i].url)
              => results[i] = Selected[FirstIndex(Selected, results[i].url)]

\* the candidates of neither primary category among the entries of s
OthersIn(s) == {s[i] : i \in {j \in 1..Len(s) : ~is_k(s[j]) /\ ~is_p(s[j])}}
\* the entries of the other bucket whose url the deduplicated selection lacks
FreshOthers == SelectSeq(BestOther, LAMBDA r : ~HasUrl(UniqueRecs(Selected), r.url))

\* C21: candidates of the other bucket enter the result only when the
\* deduplicated Knowledge/Personality selection has fewer than n entries; those
\* that enter are the first of the other bucket, in its order, whose url is not
\* already present, up to n entries in all; every selected Knowledge/Personality
\* candidate stays in the result, whatever the scores of the others.
C21_BackfillOnlyWhenShort ==
    status = "ok" =>
        /\ OthersIn(results) # {} => Len(UniqueRecs(Selected)) < n_results
        /\ OthersIn(results) =
              Range(Take(FreshOthers, Max(n_results - Len(UniqueRecs(Selected)), 0)))
        /\ \A i \in 1..Len(Selected) : HasUrl(results, Selected[i].url)
        /\ \A i, j \in 1..Len(results) :
              (i < j /\ results[i] \in OthersIn(results) /\ results[j] \in OthersIn(results))
              => \E a, b \in 1..Len(BestOther) :
                    a < b /\ BestOther[a] = results[i] /\ BestOther[b] = results[j]

\* the selection was short by one entry; the other bucket held an entry whose
\* url was already selected (skipped), an entry that entered and outscores a
\* selected candidate, and an entry left out because n was reached
C21_Witness ==
    /\ status = "ok"
    /\ Len(UniqueRecs(Selected)) = n_results - 1
    /\ \E i \in 1..Len(BestOther) : HasUrl(Selected, BestOther[i].url)
    /\ \E o \in OthersIn(results) :
          \E i \in 1..Len(Selected) : o.final_score > Selected[i].final_score
    /\ \E i \in 1..Len(FreshOthers) : ~HasUrl(results, FreshOthers[i].url)

\* 0.45, the whole keyword weight, in units of 1/70000
FullKeywordWeight == KeywordCap * KeywordWeight

\* C22: final_score = 0.35 * semantic_score + 0.45 * min(keyword_score, 3.5) / 3.5
\* + 0.20 * metadata_score for every candidate; a raw keyword_score of 3.5 or more
\* contributes exactly 0.45, so two candidates that differ only in a raw
\* keyword_score at or above the cap get the same final_score.
C22_CappedKeywordTerm ==
    status = "ok" =>
        /\ \A i \in 1..Len(scored) :
              LET kw == scored[i].keyword_score
                  rest == SemanticWeight * pool[i].similarity_score
                          + MetadataWeight * scored[i].metadata_score
              IN  /\ scored[i].final_score =
                        rest + KeywordWeight * (IF kw < KeywordCap THEN kw ELSE KeywordCap)
                  /\ kw >= KeywordCap => scored[i].final_score - rest = FullKeywordWeight
        /\ \A i, j \in 1..Len(scored) :
              (/\ scored[i].keyword_score >= KeywordCap
               /\ scored[j].keyword_score >= KeywordCap
               /\ pool[i].similarity_score = pool[j].similarity_score
               /\ scored[i].metadata_score = scored[j].metadata_score)
              => scored[i].final_score = scored[j].final_score

\* two candidates with the same similarity and metadata score and different raw
\* keyword scores, both at or above the cap, next to one below the cap
C22_Witness ==
    /\ status = "ok"
    /\ \E i, j \in 1..Len(scored) :
          /\ scored[i].keyword_score >= KeywordCap
          /\ scored[j].keyword_score > scored[i].keyword_score
          /\ pool[i].similarity_score = pool[j].similarity_score
          /\ scored[i].metadata_score = scored[j].metadata_score
    /\ \E k \in 1..Len(scored) :
          scored[k].keyword_score > 0 /\ scored[k].keyword_score < KeywordCap

\* the role text of the last call, and its whitespace-delimited tokens
RoleText == Lower(CallAnalysis.role.v)
RoleTokens == Split(RoleText)
InName(w, c) == IsSubstr(w, Lower(c.name))
InSkillSet(w, c) == \E m \in 1..Len(c.skills) : Strip(Lower(c.skills[m])) = w
InDescription(w, c) == IsSubstr(w, Lower(c.description))
\* the places of the expanded skills that match candidate c at each tier
NameHits(c) == {k \in 1..Len(expanded_skills) : InName(expanded_skills[k], c)}
SkillSetHits(c) ==
    {k \in 1..Len(expanded_skills) :
        ~InName(expanded_skills[k], c) /\ InSkillSet(expanded_skills[k], c)}
DescriptionHits(c) ==
    {k \in 1..Len(expanded_skills) :
        /\ ~InName(expanded_skills[k], c) /\ ~InSkillSet(expanded_skills[k], c)
        /\ InDescription(expanded_skills[k], c)}
\* the places of the role text's tokens (a repeated token has several places)
\* that are longer than 3 characters and occur in c's name
RoleHits(c) == {t \in 1..Len(RoleTokens) : Len(RoleTokens[t]) > 3 /\ InName(RoleTokens[t], c)}

\* C23: keyword_score is one contribution per expanded skill (1.8 if the skill
\* occurs in the name, else 1.2 if it is in the skill set, else 0.6 if it occurs
\* in the description, else 0) plus 0.9 for every token of the role text longer
\* than 3 characters that occurs in the name, a repeated token counting again.
C23_KeywordScore ==
    status = "ok" =>
        \A i \in 1..Len(scored) :
            scored[i].keyword_score =
                18 * Cardinality(NameHits(pool[i]))
                + 12 * Cardinality(SkillSetHits(pool[i]))
                + 6 * Cardinality(DescriptionHits(pool[i]))
                + 9 * Cardinality(RoleHits(pool[i]))

\* a call in which a skill matched one candidate at two tiers (skill set and
\* description), another candidate in its name, and a token that the role text
\* repeats occurred in a candidate's name
C23_Witness ==
    /\ status = "ok"
    /\ \E i \in 1..Len(pool) : \E k \in SkillSetHits(pool[i]) :
          InDescription(expanded_skills[k], pool[i])
    /\ \E i \in 1..Len(pool) : NameHits(pool[i]) # {}
    /\ \E i \in 1..Len(pool) : \E t, u \in RoleHits(pool[i]) :
          t # u /\ RoleTokens[t] = RoleTokens[u]

ScoreFields == {"final_score", "keyword_score", "metadata_score"}
\* record r is candidate c with nothing changed but score fields added
OnlyScoresAdded(r, c) ==
    /\ DOMAIN c \subseteq DOMAIN r
    /\ DOMAIN r \ DOMAIN c \subseteq ScoreFields
    /\ \A f \in DOMAIN c : r[f] = c[f]

\* C25: a ranking call leaves every retrieval-supplied field of every candidate
\* (url, name, description, skills, test_types, job_level, similarity) as the
\* retrieval supplied it; a candidate changes only by the addition of the
\* derived score fields, and the returned entries are such candidates.
C25_OnlyScoresAdded ==
    status = "ok" =>
        /\ Len(scored) = Len(pool)
        /\ \A i \in 1..Len(pool) : OnlyScoresAdded(scored[i], pool[i])
        /\ \A i \in 1..Len(results) :
              \E j \in 1..Len(pool) : OnlyScoresAdded(results[i], pool[j])

\* a returned candidate whose name and skill list the scoring loop read in
\* lower case and stripped, and that scored on them
C25_Witness ==
    /\ status = "ok"
    /\ \E i \in 1..Len(results) :
          /\ AssessmentSkills(results[i]) # results[i].skills
          /\ Lower(results[i].name) # results[i].name
          /\ results[i].keyword_score > 0
          /\ results[i].metadata_score > 0

\* the places of text s where a number followed by one of the units starts
UnitStarts(s, units) == {i \in 1..Len(s) : MatchAt(s, i, units)}
\* the number at the first of those places
FirstNumber(s, units) ==
    LET i == CHOOSE k \in UnitStarts(s, units) : \A m \in UnitStarts(s, units) : k <= m
    IN  DecVal(s, i, DigitsEnd(s, i))
MinuteUnits == {l_min, l_minute, l_minutes}
HourUnits == {l_hr, l_hour, l_hours}
BareHourUnits == {l_h}

\* C26: the query duration parser returns the value of the first pattern type
\* that matches, in the order minutes, hours, bare h, wherever the matches sit
\* in the text; hour and bare-h values are multiplied by 60; it returns None when
\* no pattern matches.
C26_PatternOrder ==
    "extract_duration_constraint" \in evaluated =>
        LET q == Lower(query)
        IN  /\ UnitStarts(q, MinuteUnits) # {} =>
                  duration_constraint = FirstNumber(q, MinuteUnits)
            /\ (UnitStarts(q, MinuteUnits) = {} /\ UnitStarts(q, HourUnits) # {}) =>
                  duration_constraint = 60 * FirstNumber(q, HourUnits)
            /\ (/\ UnitStarts(q, MinuteUnits) = {} /\ UnitStarts(q, HourUnits) = {}
                 /\ UnitStarts(q, BareHourUnits) # {}) =>
                  duration_constraint = 60 * FirstNumber(q, BareHourUnits)
            /\ UnitStarts(q, MinuteUnits \cup HourUnits \cup BareHourUnits) = {} =>
                  duration_constraint = None

\* a query whose hour match stands before its minute match has been parsed to
\* the minute value
C26_Witness ==
    /\ "extract_duration_constraint" \in evaluated
    /\ \E i \in UnitStarts(Lower(query), HourUnits) :
          \E j \in UnitStarts(Lower(query), MinuteUnits) : i < j
    /\ duration_constraint = FirstNumber(Lower(query), MinuteUnits)
    /\ duration_constraint # 60 * FirstNumber(Lower(query), HourUnits)

\* the units of the candidate parser
CandidateHourUnits == {l_hr, l_hour}
CandidateMinuteUnits == {l_min, l_minute}
\* 60 * hours + minutes over the first hour match and the first minute match
HoursPlusMinutes(s) ==
    (IF UnitStarts(s, CandidateHourUnits) # {}
     THEN 60 * FirstNumber(s, CandidateHourUnits) ELSE 0)
    + (IF UnitStarts(s, CandidateMinuteUnits) # {}
       THEN FirstNumber(s, CandidateMinuteUnits) ELSE 0)

\* C27: the candidate duration parser returns 60 * hours + minutes for the first
\* hour match and the first minute match of the string, and 999 when the string
\* is empty or that sum is not positive; it never returns 0 or a negative number.
C27_HoursPlusMinutes ==
    "parse_duration" \in evaluated =>
        /\ res_duration > 0
        /\ res_duration =
              IF Len(duration_str) = 0 \/ HoursPlusMinutes(Lower(duration_str)) <= 0
              THEN 999
              ELSE HoursPlusMinutes(Lower(duration_str))

\* a text with an hour match and a minute match has been parsed to their sum
C27_Witness ==
    /\ "parse_duration" \in evaluated
    /\ UnitStarts(Lower(duration_str), CandidateHourUnits) # {}
    /\ UnitStarts(Lower(duration_str), CandidateMinuteUnits) # {}
    /\ res_duration = HoursPlusMinutes(Lower(duration_str))
    /\ res_duration > FirstNumber(Lower(duration_str), CandidateMinuteUnits)
    /\ res_duration # 999

\* what the call returns when its selection is the round-robin interleave
InterleavedResults ==
    FinalResults(Backfill(UniqueRecs(Interleave(BestK, BestP, n_results)),
                          BestOther, n_results),
                 n_results)

\* C28: after the normalisation of a ranking call Personality is required
\* whenever Knowledge is (an empty list becomes [K, P], P is appended to a list
\* with K and without P), so no call takes the knowledge-only selection branch:
\* a call for which Knowledge was produced returns the interleaved selection.
C28_KnowledgeImpliesPersonality ==
    status = "ok" =>
        /\ InList("K", ReqTypes) => InList("P", ReqTypes)
        /\ Len(Produced) = 0 => ReqTypes = <<"K", "P">>
        /\ OnlyK => ReqTypes = Append(Produced, "P")
        /\ Branch(ReqTypes) # "k_only"
        /\ InList("K", Produced) => results = InterleavedResults

\* Knowledge alone was produced and the call returned a candidate that declares
\* Personality and not Knowledge, next to a Knowledge candidate
C28_Witness ==
    /\ status = "ok"
    /\ OnlyK
    /\ \E i \in 1..Len(results) : is_p(results[i]) /\ ~is_k(results[i])
    /\ \E i \in 1..Len(results) : is_k(results[i]) /\ ~is_p(results[i])
    /\ Len(BestK) >= n_results

\* C29: when the classifier returns a well-formed analysis whose job_level is
\* null, the call completes with a ranking, and the job-level term contributes 0
\* to every candidate's metadata_score.
C29_NullJobLevelCompletes ==
    (/\ calls >= 1
     /\ response.kind = "ok"
     /\ response.analysis.job_level = Null
     /\ response.analysis.role # Null
     /\ ~(path = "api" /\ QueryRejected(query)))
    => /\ status = "ok"
       /\ Len(scored) = Len(pool)
       /\ \A i \in 1..Len(scored) :
             scored[i].metadata_score =
                 CategoryTerm(pool[i], ReqTypes)
                 + DurationTerm(pool[i], extract_duration_constraint(query))

\* the catalogue entry that the search result r was built from
EntryOf(r) == catalogue[CHOOSE k \in 1..Len(catalogue) : catalogue[k].url = r.url]

\* C30: category tags round-trip through the vector store: the test_types list
\* that search returns for a catalogue entry equals the list add_assessments
\* stored, so an entry stored with [K, P] is seen by the ranker as declaring
\* both K and P.
C30_TypesRoundTrip ==
    \A i \in 1..Len(pool) :
        /\ pool[i].test_types = EntryOf(pool[i]).test_types
        /\ InList("K", EntryOf(pool[i]).test_types) => is_k(pool[i])
        /\ InList("P", EntryOf(pool[i]).test_types) => is_p(pool[i])

====
